---- MODULE Spec2Model ----
(***************************************************************************)
(* Model of Activity-02/analyze_log.py, the Cowrie honeypot log analyzer.  *)
(*                                                                         *)
(* One run of the program is one behaviour: main() dispatches on --task,   *)
(* the task function opens the log file, folds its lines into a Counter or *)
(* a defaultdict(set), and then prints a title and an aligned table.       *)
(*                                                                         *)
(* Text is modelled as follows.  A log line is a record whose kind says    *)
(* which of the five regular expressions matches it, and whose fields are  *)
(* the named groups of that expression.  Timestamps, bucket keys and shell *)
(* commands are sequences of one-character strings, because the program    *)
(* slices, parses, formats, strips and compares them.  IPs, fingerprints,  *)
(* usernames and passwords are only compared for equality and measured,    *)
(* so they are plain strings.  A printed line is a record holding what the *)
(* claims are about: its kind, its cells and its length in characters.     *)
(***************************************************************************)
EXTENDS Integers, Sequences, FiniteSets, TLC

\* ------------------------------------------------------------------ bounds

\* The longest log file, in lines.
MaxLines == 3

\* The largest --min-count / --min-ips given on the command line.
MaxThreshold == 3

\* ------------------------------------------------------- program constants

\* _print_counter: the metric column is right-aligned in 8 characters.
CountWidth == 8

\* _print_counter: the rule is width + 9 dashes.
RulePad == 9

\* analyze_successful_creds: the fixed column widths and the rule.
UserWidth == 15
PwWidth == 15
IpCountWidth == 9
CredsRule == 41

\* identify_bots: the fixed column widths and the rule.
FpWidth == 47
IpsWidth == 6
BotsRule == 53

\* connections: m.group("ts")[:19] keeps the timestamp to the second.
TsLen == 19

\* argparse defaults of --min-count and --min-ips.
DefaultMinCount == 1
DefaultMinIps == 3

\* An uncaught exception ends the interpreter with status 1.
ExitUncaught == 1

\* --------------------------------------------------------------- characters

Max(a, b) == IF a >= b THEN a ELSE b

Digits == <<"0", "1", "2", "3", "4", "5", "6", "7", "8", "9">>

\* int() of one decimal digit.
DigitVal(c) == (CHOOSE d \in 1..10 : Digits[d] = c) - 1

\* ord() of the characters a timestamp or a bucket key is made of.
Ord(c) ==
    CASE c = " " -> 32
      [] c = "-" -> 45
      [] c = "." -> 46
      [] c = ":" -> 58
      [] c = "T" -> 84
      [] OTHER -> 48 + DigitVal(c)

\* int() of a string of decimal digits.
RECURSIVE ParseInt(_)
ParseInt(s) ==
    IF s = <<>> THEN 0
    ELSE 10 * ParseInt(SubSeq(s, 1, Len(s) - 1)) + DigitVal(s[Len(s)])

\* str() of a natural number.
RECURSIVE IntStr(_)
IntStr(n) ==
    IF n < 10 THEN <<Digits[n + 1]>>
    ELSE Append(IntStr(n \div 10), Digits[(n % 10) + 1])

\* The %m, %d, %H and %M directives of strftime: two digits, zero padded.
Pad2(n) == <<Digits[(n \div 10) + 1], Digits[(n % 10) + 1]>>

\* Python's < on str, for strings of the characters Ord knows.
RECURSIVE StrLess(_, _)
StrLess(a, b) ==
    IF b = <<>> THEN FALSE
    ELSE IF a = <<>> THEN TRUE
    ELSE IF a[1] # b[1] THEN Ord(a[1]) < Ord(b[1])
    ELSE StrLess(Tail(a), Tail(b))

\* str.strip(): leading and trailing blanks removed.
RECURSIVE LStrip(_)
LStrip(s) == IF s # <<>> /\ s[1] = " " THEN LStrip(Tail(s)) ELSE s

RECURSIVE RStrip(_)
RStrip(s) ==
    IF s # <<>> /\ s[Len(s)] = " " THEN RStrip(SubSeq(s, 1, Len(s) - 1)) ELSE s

Strip(s) == RStrip(LStrip(s))

\* The width a value takes under a format spec :<w or :>w : the value is
\* padded to w and never cut.
Padded(len, w) == Max(len, w)

\* ---------------------------------------------------------------- datetime

IsLeap(y) == (y % 4 = 0 /\ y % 100 # 0) \/ y % 400 = 0

DaysInMonth(y, m) ==
    IF m = 2 THEN (IF IsLeap(y) THEN 29 ELSE 28)
    ELSE IF m \in {4, 6, 9, 11} THEN 30 ELSE 31

\* The fields datetime.strptime(s, "%Y-%m-%dT%H:%M:%S") reads from s.
TsFields(s) ==
    [year   |-> ParseInt(SubSeq(s, 1, 4)),
     month  |-> ParseInt(SubSeq(s, 6, 7)),
     day    |-> ParseInt(SubSeq(s, 9, 10)),
     hour   |-> ParseInt(SubSeq(s, 12, 13)),
     minute |-> ParseInt(SubSeq(s, 15, 16)),
     second |-> ParseInt(SubSeq(s, 18, 19))]

\* Whether strptime returns a datetime; it raises ValueError otherwise.
StrptimeOk(s) ==
    LET d == TsFields(s) IN
    /\ d.year >= 1
    /\ d.month \in 1..12
    /\ d.day \in 1..DaysInMonth(d.year, d.month)
    /\ d.hour \in 0..23
    /\ d.minute \in 0..59
    /\ d.second \in 0..59

\* dt.strftime("%Y-%m-%d %H:%M"): the seconds are not printed.
Strftime(d) ==
    IntStr(d.year) \o <<"-">> \o Pad2(d.month) \o <<"-">> \o Pad2(d.day)
        \o <<" ">> \o Pad2(d.hour) \o <<":">> \o Pad2(d.minute)

\* s[:n] of Python: the first n characters, or all of s when it is shorter.
Prefix(s, n) == SubSeq(s, 1, IF Len(s) < n THEN Len(s) ELSE n)

\* The bucket key of a matched timestamp (connections, lines 64-65).
Bucket(ts) == Strftime(TsFields(Prefix(ts, TsLen)))

\* --------------------------------------------------------------- log lines

Ip1 == "1.2.3.4"
Ip2 == "5.6.7.8"
Ip3 == "10.0.0.1"

Fp1 == "00:11:22:33:44:55:66:77:88:99:aa"
Fp2 == "ff:ee:dd:cc:bb:aa:99:88:77:66:55"

Day == <<"2", "0", "2", "3", "-", "0", "1", "-", "0", "1", "T">>

\* 2023-01-01T10:15:02, 2023-01-01T10:15:47.5 and 2023-01-01T10:14:59:
\* the first two differ in seconds and fraction only.
Ts1 == Day \o <<"1", "0", ":", "1", "5", ":", "0", "2">>
Ts2 == Day \o <<"1", "0", ":", "1", "5", ":", "4", "7", ".", "5">>
Ts3 == Day \o <<"1", "0", ":", "1", "4", ":", "5", "9">>

\* 2023-02-30T10:15:02 matches NEW_CONN_PATTERN and is no date.
TsBad == <<"2", "0", "2", "3", "-", "0", "2", "-", "3", "0", "T",
           "1", "0", ":", "1", "5", ":", "0", "2">>

\* What follows "CMD: " on a line: "ls", " ls ", "uname -a" and " ".
Cmd1 == <<"l", "s">>
Cmd2 == <<" ", "l", "s", " ">>
Cmd3 == <<"u", "n", "a", "m", "e", " ", "-", "a">>
Cmd4 == <<" ">>

\* A line none of the five patterns matches, and one that is not UTF-8.
OtherLine == [kind |-> "other"]
BadLine == [kind |-> "undecodable"]

FailedLines == {[kind |-> "failed", ip |-> a] : a \in {Ip1, Ip2, Ip3}}

ConnLines ==
    {[kind |-> "conn", ts |-> Ts1, ip |-> Ip1],
     [kind |-> "conn", ts |-> Ts2, ip |-> Ip2],
     [kind |-> "conn", ts |-> Ts3, ip |-> Ip1],
     [kind |-> "conn", ts |-> TsBad, ip |-> Ip1]}

SuccessLines ==
    {[kind |-> "success", ip |-> a, user |-> "root", pw |-> "admin"] :
        a \in {Ip1, Ip2}}
    \cup {[kind |-> "success", ip |-> Ip1, user |-> "root", pw |-> "1234"],
          [kind |-> "success", ip |-> Ip2, user |-> "pi", pw |-> "1234"]}

HasshLines ==
    {[kind |-> "hassh", ip |-> a, fp |-> Fp1] : a \in {Ip1, Ip2, Ip3}}
    \cup {[kind |-> "hassh", ip |-> Ip1, fp |-> Fp2]}

CmdLines == {[kind |-> "cmd", cmd |-> c] : c \in {Cmd1, Cmd2, Cmd3, Cmd4}}

Tasks ==
    {"failed-logins", "connections", "successful-creds", "identify-bots",
     "top-commands"}

\* The lines the log files of a run are made of: the lines the task's
\* pattern matches, a line of another grammar, and an undecodable line.
LinesOf(t) ==
    {OtherLine, BadLine} \cup
    CASE t = "failed-logins" -> FailedLines \cup {CHOOSE l \in SuccessLines : TRUE}
      [] t = "connections" -> ConnLines
      [] t = "successful-creds" -> SuccessLines \cup {CHOOSE l \in FailedLines : TRUE}
      [] t = "identify-bots" -> HasshLines
      [] OTHER -> CmdLines

\* All sequences over S of length at most n.
SeqsUpTo(S, n) == UNION {[1..k -> S] : k \in 0..n}

\* ----------------------------------------------------------------- patterns

\* PATTERN.search(line) is not None: the line's kind names its pattern.
FAILED_LOGIN_PATTERN(line) == line.kind = "failed"
NEW_CONN_PATTERN(line) == line.kind = "conn"
SUCCESS_LOGIN_PATTERN(line) == line.kind = "success"
FINGERPRINT_PATTERN(line) == line.kind = "hassh"
CMD_PATTERN(line) == line.kind = "cmd"

\* ------------------------------------------- Counter and defaultdict(set)

\* A dict is the sequence of its (key, value) items in insertion order.
Keys(d) == {d[j][1] : j \in 1..Len(d)}

IndexOf(d, k) == CHOOSE j \in 1..Len(d) : d[j][1] = k

Get(d, k) == d[IndexOf(d, k)][2]

\* Inc with counter[k] = 1 for counter[k] += 1.
IncAssigns(counter, k) ==
    IF k \in Keys(counter)
    THEN [counter EXCEPT ![IndexOf(counter, k)] = <<k, 1>>]
    ELSE Append(counter, <<k, 1>>)

\* counter[k] += 1 : a missing key counts from 0 and is appended.
Inc(counter, k) ==
    IF k \in Keys(counter)
    THEN [counter EXCEPT ![IndexOf(counter, k)] = <<k, @[2] + 1>>]
    ELSE Append(counter, <<k, 1>>)

\* AddIp with d[k] = {ip} for d[k].add(ip).
AddIpAssigns(d, k, ip) ==
    IF k \in Keys(d)
    THEN [d EXCEPT ![IndexOf(d, k)] = <<k, {ip}>>]
    ELSE Append(d, <<k, {ip}>>)

\* d[k].add(ip) on a defaultdict(set).
AddIp(d, k, ip) ==
    IF k \in Keys(d)
    THEN [d EXCEPT ![IndexOf(d, k)] = <<k, @[2] \cup {ip}>>]
    ELSE Append(d, <<k, {ip}>>)

\* DescOrder without reverse=True: ascending, stable.
AscOrder(ms) ==
    LET Before(b, a) == ms[b] < ms[a] \/ (ms[b] = ms[a] /\ b < a)
        Rank(a) == 1 + Cardinality({b \in 1..Len(ms) : Before(b, a)})
    IN [r \in 1..Len(ms) |-> CHOOSE a \in 1..Len(ms) : Rank(a) = r]

\* DescOrder as sorted(xs, key=...)[::-1]: descending, and of two items of
\* equal sort key the later one comes first.
ReversedAscOrder(ms) ==
    LET Before(b, a) == ms[b] > ms[a] \/ (ms[b] = ms[a] /\ b > a)
        Rank(a) == 1 + Cardinality({b \in 1..Len(ms) : Before(b, a)})
    IN [r \in 1..Len(ms) |-> CHOOSE a \in 1..Len(ms) : Rank(a) = r]

\* sorted(xs, key=..., reverse=True) as the order of the indices of xs, when
\* ms[j] is the sort key of xs[j].  Python's sort is stable, with reverse
\* too: of two items of equal sort key the earlier one stays first.
DescOrder(ms) ==
    LET Before(b, a) == ms[b] > ms[a] \/ (ms[b] = ms[a] /\ b < a)
        Rank(a) == 1 + Cardinality({b \in 1..Len(ms) : Before(b, a)})
    IN [r \in 1..Len(ms) |-> CHOOSE a \in 1..Len(ms) : Rank(a) = r]

\* Counter.most_common(): the items, highest count first.
MostCommon(counter) ==
    LET order == DescOrder([j \in 1..Len(counter) |-> counter[j][2]])
    IN [r \in 1..Len(counter) |-> counter[order[r]]]

\* sorted(d.items(), key=lambda item: len(item[1]), reverse=True)
SortedByIpCount(d) ==
    LET order == DescOrder([j \in 1..Len(d) |-> Cardinality(d[j][2])])
    IN [r \in 1..Len(d) |-> d[order[r]]]

\* SortedItems with the sort left out: the items in insertion order.
UnsortedItems(counter) == counter

\* sorted(counter.items()): ascending by key, the keys of a dict being
\* distinct.
SortedItems(counter) ==
    LET Rank(a) == 1 + Cardinality({b \in 1..Len(counter) :
                                      StrLess(counter[b][1], counter[a][1])})
    IN [r \in 1..Len(counter) |->
            counter[CHOOSE a \in 1..Len(counter) : Rank(a) = r]]

\* ----------------------------------------------------------------- printing

\* max(xs, default=d) of Python.
RECURSIVE MaxOf(_, _)
MaxOf(xs, d) ==
    IF xs = <<>> THEN d
    ELSE IF Len(xs) = 1 THEN xs[1]
    ELSE Max(xs[1], MaxOf(Tail(xs), d))

\* _print_counter's width: the longest key, and len(head1) only when the
\* counter is empty.
KeyWidth(counter, head1) ==
    MaxOf([j \in 1..Len(counter) |-> Len(counter[j][1])], Len(head1))

\* PrintCounter returning early, with nothing printed, on an empty counter.
PrintCounterUnlessEmpty(counter, head1, head2, sort_keys) ==
    IF counter = <<>> THEN <<>>
    ELSE LET width == KeyWidth(counter, head1)
             items == IF sort_keys THEN SortedItems(counter)
                      ELSE MostCommon(counter)
         IN <<[kind |-> "header", cells |-> <<head1, head2>>,
               widths |-> <<width>>,
               len |-> Padded(Len(head1), width) + 1
                         + Padded(Len(head2), CountWidth)],
              [kind |-> "rule", len |-> width + RulePad]>>
            \o [r \in 1..Len(items) |->
                  [kind |-> "row", key |-> items[r][1], metric |-> items[r][2],
                   len |-> Padded(Len(items[r][1]), width) + 1
                             + Padded(Len(IntStr(items[r][2])), CountWidth)]]

\* The three print calls of _print_counter, as the lines they write.
PrintCounter(counter, head1, head2, sort_keys) ==
    LET width == KeyWidth(counter, head1)
        items == IF sort_keys THEN SortedItems(counter) ELSE MostCommon(counter)
    IN <<[kind |-> "header", cells |-> <<head1, head2>>, widths |-> <<width>>,
          len |-> Padded(Len(head1), width) + 1 + Padded(Len(head2), CountWidth)],
         [kind |-> "rule", len |-> width + RulePad]>>
       \o [r \in 1..Len(items) |->
             [kind |-> "row", key |-> items[r][1], metric |-> items[r][2],
              len |-> Padded(Len(items[r][1]), width) + 1
                        + Padded(Len(IntStr(items[r][2])), CountWidth)]]

\* ------------------------------------------------------ the task functions

\* analyze_failed_logins, the body of the for loop.
FailedLoginsStep(counter, line) ==
    IF FAILED_LOGIN_PATTERN(line) THEN Inc(counter, line.ip) ELSE counter

\* FilterCounter with cnt > min_count for cnt >= min_count.
FilterCounterExclusive(counter, min_count) ==
    SelectSeq(counter, LAMBDA item : item[2] > min_count)

\* analyze_failed_logins, line 52: the items of count >= min_count.
FilterCounter(counter, min_count) ==
    SelectSeq(counter, LAMBDA item : item[2] >= min_count)

\* analyze_failed_logins, what it prints after the loop.
FailedLoginsReport(counter, min_count) ==
    <<[kind |-> "title", text |-> "Failed login attempts (min N)",
       N |-> min_count]>>
    \o PrintCounter(FilterCounter(counter, min_count), "IP", "Count", FALSE)

\* connections, the body of the for loop, when strptime returns.
ConnectionsStep(per_min, line) ==
    IF NEW_CONN_PATTERN(line) THEN Inc(per_min, Bucket(line.ts)) ELSE per_min

\* connections: whether the body of the loop raises ValueError on the line.
ConnectionsRaises(line) ==
    NEW_CONN_PATTERN(line) /\ ~StrptimeOk(Prefix(line.ts, TsLen))

\* connections, what it prints after the loop.
ConnectionsReport(per_min) ==
    <<[kind |-> "title", text |-> "Connections per minute"]>>
    \o PrintCounter(per_min, "Timestamp", "Count", TRUE)

\* analyze_successful_creds, the body of the for loop.
CredsStep(creds, line) ==
    IF SUCCESS_LOGIN_PATTERN(line)
    THEN AddIp(creds, <<line.user, line.pw>>, line.ip)
    ELSE creds

\* analyze_successful_creds, what it prints after the loop.
CredsReport(creds) ==
    LET items == SortedByIpCount(creds) IN
    <<[kind |-> "title", text |-> "Successful login credentials"],
      [kind |-> "header", cells |-> <<"Username", "Password", "IP_Count">>,
       widths |-> <<UserWidth, PwWidth>>,
       len |-> Padded(Len("Username"), UserWidth) + 1
                 + Padded(Len("Password"), PwWidth) + 1
                 + Padded(Len("IP_Count"), IpCountWidth)],
      [kind |-> "rule", len |-> CredsRule]>>
    \o [r \in 1..Len(items) |->
          [kind |-> "row", key |-> items[r][1],
           metric |-> Cardinality(items[r][2]),
           len |-> Padded(Len(items[r][1][1]), UserWidth) + 1
                     + Padded(Len(items[r][1][2]), PwWidth) + 1
                     + Padded(Len(IntStr(Cardinality(items[r][2]))),
                              IpCountWidth)]]

\* identify_bots, the body of the for loop.
BotsStep(fp_map, line) ==
    IF FINGERPRINT_PATTERN(line) THEN AddIp(fp_map, line.fp, line.ip)
    ELSE fp_map

\* identify_bots, line 98: the fingerprints of len(ips) >= min_ips.
FilterBots(fp_map, min_ips) ==
    SelectSeq(fp_map, LAMBDA item : Cardinality(item[2]) >= min_ips)

\* identify_bots, what it prints after the loop.
BotsReport(fp_map, min_ips) ==
    LET items == SortedByIpCount(FilterBots(fp_map, min_ips)) IN
    <<[kind |-> "title", text |-> "Fingerprints seen from >= N unique IPs",
       N |-> min_ips],
      [kind |-> "header", cells |-> <<"Fingerprint", "IPs">>,
       widths |-> <<FpWidth>>,
       len |-> Padded(Len("Fingerprint"), FpWidth) + 1
                 + Padded(Len("IPs"), IpsWidth)],
      [kind |-> "rule", len |-> BotsRule]>>
    \o [r \in 1..Len(items) |->
          [kind |-> "row", key |-> items[r][1],
           metric |-> Cardinality(items[r][2]),
           len |-> Padded(Len(items[r][1]), FpWidth) + 1
                     + Padded(Len(IntStr(Cardinality(items[r][2]))), IpsWidth)]]

\* top_commands, the body of the for loop.
CommandsStep(counter, line) ==
    IF CMD_PATTERN(line) THEN Inc(counter, Strip(line.cmd)) ELSE counter

\* top_commands, what it prints after the loop.
CommandsReport(counter) ==
    <<[kind |-> "title", text |-> "Top shell commands"]>>
    \o PrintCounter(counter, "Command", "Count", FALSE)

\* Decodes for a file opened with errors="ignore": every line is yielded.
DecodesIgnoringErrors(line) == TRUE

\* Iterating the file yields the line, or raises UnicodeDecodeError.
Decodes(line) == line.kind # "undecodable"

\* -------------------------------------------------------------------- state

VARIABLES
    task,           \* args.task
    min_count,      \* args.min_count
    min_ips,        \* args.min_ips
    logfile_exists, \* whether open(args.logfile) succeeds
    file,           \* the lines of the log file
    pc,             \* "main", "open", "loop", "done" or "crashed"
    i,              \* the number of lines the for loop has consumed
    counter,        \* analyze_failed_logins and top_commands: counter
    per_min,        \* connections: per_min
    creds,          \* analyze_successful_creds: creds
    fp_map,         \* identify_bots: fp_map
    stdout,         \* the lines printed so far
    raised,         \* the uncaught exception, "" when there is none
    exit_status     \* <<>> while running, then <<status>>

vars ==
    <<task, min_count, min_ips, logfile_exists, file, pc, i, counter, per_min,
      creds, fp_map, stdout, raised, exit_status>>

args == <<task, min_count, min_ips, logfile_exists, file>>

dicts == <<counter, per_min, creds, fp_map>>

Thresholds == 0..MaxThreshold

Init ==
    /\ task \in Tasks
    /\ min_count \in
         IF task = "failed-logins" THEN Thresholds ELSE {DefaultMinCount}
    /\ min_ips \in
         IF task = "identify-bots" THEN Thresholds ELSE {DefaultMinIps}
    /\ logfile_exists \in BOOLEAN
    /\ file \in IF logfile_exists THEN SeqsUpTo(LinesOf(task), MaxLines)
                ELSE {<<>>}
    /\ pc = "main"
    /\ i = 0
    /\ counter = <<>>
    /\ per_min = <<>>
    /\ creds = <<>>
    /\ fp_map = <<>>
    /\ stdout = <<>>
    /\ raised = ""
    /\ exit_status = <<>>

\* An exception nobody catches: the traceback goes to stderr and the
\* interpreter exits with status 1.
Raise(e) ==
    /\ pc' = "crashed"
    /\ raised' = e
    /\ exit_status' = <<ExitUncaught>>

\* A task function returns, main returns, the interpreter exits with 0.
Return ==
    /\ pc' = "done"
    /\ exit_status' = <<0>>
    /\ UNCHANGED raised

\* The for loop goes on to the next line.
NextLine ==
    /\ i' = i + 1
    /\ UNCHANGED <<pc, raised, exit_status>>

\* main: parse_args and the dispatch on args.task.
Main ==
    /\ pc = "main"
    /\ pc' = "open"
    /\ UNCHANGED <<args, i, dicts, stdout, raised, exit_status>>

\* with open(path, encoding="utf-8") as fp, in each task function.
OpenFile ==
    /\ pc = "open"
    /\ IF logfile_exists
       THEN pc' = "loop" /\ UNCHANGED <<raised, exit_status>>
       ELSE Raise("FileNotFoundError")
    /\ UNCHANGED <<args, i, dicts, stdout>>

\* analyze_failed_logins: one turn of the for loop.
AnalyzeFailedLoginsLine ==
    /\ pc = "loop" /\ task = "failed-logins" /\ i < Len(file)
    /\ IF Decodes(file[i + 1])
       THEN counter' = FailedLoginsStep(counter, file[i + 1]) /\ NextLine
       ELSE Raise("UnicodeDecodeError") /\ UNCHANGED <<counter, i>>
    /\ UNCHANGED <<args, per_min, creds, fp_map, stdout>>

\* analyze_failed_logins: the end of the file, the filter and the report.
AnalyzeFailedLoginsPrint ==
    /\ pc = "loop" /\ task = "failed-logins" /\ i = Len(file)
    /\ stdout' = stdout \o FailedLoginsReport(counter, min_count)
    /\ Return
    /\ UNCHANGED <<args, i, dicts>>

\* connections: one turn of the for loop.
ConnectionsLine ==
    /\ pc = "loop" /\ task = "connections" /\ i < Len(file)
    /\ IF ~Decodes(file[i + 1])
       THEN Raise("UnicodeDecodeError") /\ UNCHANGED <<per_min, i>>
       ELSE IF ConnectionsRaises(file[i + 1])
       THEN Raise("ValueError") /\ UNCHANGED <<per_min, i>>
       ELSE per_min' = ConnectionsStep(per_min, file[i + 1]) /\ NextLine
    /\ UNCHANGED <<args, counter, creds, fp_map, stdout>>

\* connections: the end of the file and the report.
ConnectionsPrint ==
    /\ pc = "loop" /\ task = "connections" /\ i = Len(file)
    /\ stdout' = stdout \o ConnectionsReport(per_min)
    /\ Return
    /\ UNCHANGED <<args, i, dicts>>

\* analyze_successful_creds: one turn of the for loop.
AnalyzeSuccessfulCredsLine ==
    /\ pc = "loop" /\ task = "successful-creds" /\ i < Len(file)
    /\ IF Decodes(file[i + 1])
       THEN creds' = CredsStep(creds, file[i + 1]) /\ NextLine
       ELSE Raise("UnicodeDecodeError") /\ UNCHANGED <<creds, i>>
    /\ UNCHANGED <<args, counter, per_min, fp_map, stdout>>

\* analyze_successful_creds: the end of the file and the report.
AnalyzeSuccessfulCredsPrint ==
    /\ pc = "loop" /\ task = "successful-creds" /\ i = Len(file)
    /\ stdout' = stdout \o CredsReport(creds)
    /\ Return
    /\ UNCHANGED <<args, i, dicts>>

\* identify_bots: one turn of the for loop.
IdentifyBotsLine ==
    /\ pc = "loop" /\ task = "identify-bots" /\ i < Len(file)
    /\ IF Decodes(file[i + 1])
       THEN fp_map' = BotsStep(fp_map, file[i + 1]) /\ NextLine
       ELSE Raise("UnicodeDecodeError") /\ UNCHANGED <<fp_map, i>>
    /\ UNCHANGED <<args, counter, per_min, creds, stdout>>

\* identify_bots: the end of the file, the filter and the report.
IdentifyBotsPrint ==
    /\ pc = "loop" /\ task = "identify-bots" /\ i = Len(file)
    /\ stdout' = stdout \o BotsReport(fp_map, min_ips)
    /\ Return
    /\ UNCHANGED <<args, i, dicts>>

\* top_commands: one turn of the for loop.
TopCommandsLine ==
    /\ pc = "loop" /\ task = "top-commands" /\ i < Len(file)
    /\ IF Decodes(file[i + 1])
       THEN counter' = CommandsStep(counter, file[i + 1]) /\ NextLine
       ELSE Raise("UnicodeDecodeError") /\ UNCHANGED <<counter, i>>
    /\ UNCHANGED <<args, per_min, creds, fp_map, stdout>>

\* top_commands: the end of the file and the report.
TopCommandsPrint ==
    /\ pc = "loop" /\ task = "top-commands" /\ i = Len(file)
    /\ stdout' = stdout \o CommandsReport(counter)
    /\ Return
    /\ UNCHANGED <<args, i, dicts>>

Next ==
    \/ Main
    \/ OpenFile
    \/ AnalyzeFailedLoginsLine
    \/ AnalyzeFailedLoginsPrint
    \/ ConnectionsLine
    \/ ConnectionsPrint
    \/ AnalyzeSuccessfulCredsLine
    \/ AnalyzeSuccessfulCredsPrint
    \/ IdentifyBotsLine
    \/ IdentifyBotsPrint
    \/ TopCommandsLine
    \/ TopCommandsPrint

Spec == Init /\ [][Next]_vars

\* ------------------------------------------------- a whole run on one file

\* The body of the task's for loop, on its accumulator.
TaskStep(t, acc, line) ==
    CASE t = "failed-logins" -> FailedLoginsStep(acc, line)
      [] t = "connections" -> ConnectionsStep(acc, line)
      [] t = "successful-creds" -> CredsStep(acc, line)
      [] t = "identify-bots" -> BotsStep(acc, line)
      [] OTHER -> CommandsStep(acc, line)

\* What the task prints after its loop.
TaskReport(t, acc, mc, mi) ==
    CASE t = "failed-logins" -> FailedLoginsReport(acc, mc)
      [] t = "connections" -> ConnectionsReport(acc)
      [] t = "successful-creds" -> CredsReport(acc)
      [] t = "identify-bots" -> BotsReport(acc, mi)
      [] OTHER -> CommandsReport(acc)

\* The task's for loop over lines that decode and parse.
RECURSIVE ReadAll(_, _, _)
ReadAll(t, acc, lines) ==
    IF lines = <<>> THEN acc
    ELSE ReadAll(t, TaskStep(t, acc, Head(lines)), Tail(lines))

\* The standard output of a run of task t on a readable file.
Output(t, lines, mc, mi) == TaskReport(t, ReadAll(t, <<>>, lines), mc, mi)

\* ------------------------------------------------- vocabulary of the claims

Done == pc = "done"

\* The dict the running task fills.
Acc ==
    CASE task \in {"failed-logins", "top-commands"} -> counter
      [] task = "connections" -> per_min
      [] task = "successful-creds" -> creds
      [] OTHER -> fp_map

\* The data rows of a report, and the kinds of its lines.
Rows(out) == SelectSeq(out, LAMBDA l : l.kind = "row")
Kinds(out) == [j \in 1..Len(out) |-> out[j].kind]
RowKeys(out) == {Rows(out)[r].key : r \in 1..Len(Rows(out))}

\* Whether the task's grammar matches the line.
Matches(t, line) ==
    line.kind = CASE t = "failed-logins" -> "failed"
                  [] t = "connections" -> "conn"
                  [] t = "successful-creds" -> "success"
                  [] t = "identify-bots" -> "hassh"
                  [] OTHER -> "cmd"

\* The minute of a timestamp as the log writes it: its first 16 characters,
\* YYYY-MM-DDTHH:MM, with a blank for the T.
MinuteOf(ts) == [j \in 1..16 |-> IF j = 11 THEN " " ELSE ts[j]]

\* The key a matching line is grouped under.
KeyOf(t, line) ==
    CASE t = "failed-logins" -> line.ip
      [] t = "connections" -> MinuteOf(line.ts)
      [] t = "successful-creds" -> <<line.user, line.pw>>
      [] t = "identify-bots" -> line.fp
      [] OTHER -> Strip(line.cmd)

\* The first n lines of the file that the task's grammar matches with key k.
LinesWith(k, n) ==
    {j \in 1..n : Matches(task, file[j]) /\ KeyOf(task, file[j]) = k}

KeysIn(n) ==
    {KeyOf(task, file[j]) : j \in {a \in 1..n : Matches(task, file[a])}}

\* The file with its lines in another order.
Reordered(p) == [j \in 1..Len(file) |-> file[p[j]]]

Orders == Permutations(1..Len(file))

CountTasks == {"failed-logins", "connections", "top-commands"}
SetTasks == {"successful-creds", "identify-bots"}

\* ------------------------------------------------------------------- claims

\* C1: in the count-by-key tasks the count held for a key equals the number
\* of lines read so far whose extracted key is that key (IP, minute of the
\* timestamp, trimmed command), and only such keys are held; so at the end of
\* the loop it is the number of such lines of the file.
C1_CountPerKey ==
    (task \in CountTasks /\ pc \in {"loop", "done"}) =>
        /\ Keys(Acc) = KeysIn(i)
        /\ Cardinality(Keys(Acc)) = Len(Acc)
        /\ \A k \in Keys(Acc) : Get(Acc, k) = Cardinality(LinesWith(k, i))

\* C1 witness: two New connection lines whose timestamps differ in seconds
\* and fraction only have been read into one bucket of count 2.
C1_Witness ==
    /\ Done /\ task = "connections"
    /\ \E a, b \in 1..Len(file) :
         /\ Matches(task, file[a]) /\ Matches(task, file[b])
         /\ file[a].ts # file[b].ts
         /\ MinuteOf(file[a].ts) = MinuteOf(file[b].ts)
         /\ per_min = << <<MinuteOf(file[a].ts), 2>> >>

\* C2: the threshold is inclusive: in failed-logins and identify-bots a key
\* is a row of the report if and only if its metric (count, number of
\* distinct IPs) is >= the threshold.
C2_InclusiveThreshold ==
    /\ (Done /\ task = "failed-logins") =>
          /\ RowKeys(stdout) \subseteq Keys(counter)
          /\ \A k \in Keys(counter) :
                k \in RowKeys(stdout) <=> Get(counter, k) >= min_count
    /\ (Done /\ task = "identify-bots") =>
          /\ RowKeys(stdout) \subseteq Keys(fp_map)
          /\ \A k \in Keys(fp_map) :
                k \in RowKeys(stdout) <=> Cardinality(Get(fp_map, k)) >= min_ips

\* C2 witness: a fingerprint seen from exactly min_ips IPs is a row and a
\* fingerprint seen from min_ips - 1 IPs is not.
C2_Witness ==
    /\ Done /\ task = "identify-bots"
    /\ \E k1, k2 \in Keys(fp_map) :
         /\ Cardinality(Get(fp_map, k1)) = min_ips
         /\ Cardinality(Get(fp_map, k2)) = min_ips - 1
         /\ k1 \in RowKeys(stdout)
         /\ k2 \notin RowKeys(stdout)

\* C3: unique-IP aggregation is a set: in identify-bots and successful-creds
\* the metric of a key is the number of distinct IPs of the lines read so far
\* with that key, and the report prints that number.
C3_DistinctIps ==
    (task \in SetTasks /\ pc \in {"loop", "done"}) =>
        /\ Keys(Acc) = KeysIn(i)
        /\ Cardinality(Keys(Acc)) = Len(Acc)
        /\ \A k \in Keys(Acc) :
              Cardinality(Get(Acc, k))
                  = Cardinality({file[j].ip : j \in LinesWith(k, i)})
        /\ \A r \in 1..Len(Rows(stdout)) :
              Rows(stdout)[r].metric
                  = Cardinality({file[j].ip : j \in LinesWith(Rows(stdout)[r].key, i)})

\* C3 witness: a credential pair read twice from the same IP is reported
\* with one IP.
C3_Witness ==
    /\ Done /\ task = "successful-creds"
    /\ \E a, b \in 1..Len(file) :
         /\ a # b /\ file[a] = file[b] /\ Matches(task, file[a])
         /\ \E r \in 1..Len(Rows(stdout)) :
              /\ Rows(stdout)[r].key = KeyOf(task, file[a])
              /\ Rows(stdout)[r].metric = 1

\* C4: the connections report is in strictly increasing order of bucket key,
\* and the same lines in any other order give the identical report.
C4_ConnectionsSortedByKey ==
    (Done /\ task = "connections") =>
        /\ \A r \in 1..(Len(Rows(stdout)) - 1) :
              StrLess(Rows(stdout)[r].key, Rows(stdout)[r + 1].key)
        /\ \A p \in Orders :
              Output(task, Reordered(p), min_count, min_ips) = stdout

\* C4 witness: the later minute was read first and is printed second.
C4_Witness ==
    /\ Done /\ task = "connections"
    /\ Len(per_min) = 2
    /\ StrLess(per_min[2][1], per_min[1][1])
    /\ Rows(stdout)[1].key = per_min[2][1]
    /\ Rows(stdout)[2].key = per_min[1][1]

MetricTasks ==
    {"failed-logins", "identify-bots", "top-commands", "successful-creds"}

\* C5: in failed-logins, identify-bots, top-commands and successful-creds
\* the metric never increases from one row to the next.
C5_DescendingMetric ==
    (Done /\ task \in MetricTasks) =>
        \A r \in 1..(Len(Rows(stdout)) - 1) :
            Rows(stdout)[r].metric >= Rows(stdout)[r + 1].metric

\* C5 witness: (root, 1234) was seen first, from one IP, and is printed
\* after (root, admin), seen from two.
C5_Witness ==
    /\ Done /\ task = "successful-creds"
    /\ Len(creds) = 2
    /\ creds[1][1] = <<"root", "1234">>
    /\ Len(Rows(stdout)) = 2
    /\ Rows(stdout)[1].key = <<"root", "admin">>
    /\ Rows(stdout)[1].metric = 2
    /\ Rows(stdout)[2].key = <<"root", "1234">>
    /\ Rows(stdout)[2].metric = 1

\* C6 as claimed: for each task, the same lines in any other order give the
\* same sequence of report rows, also when keys have equal metrics.
C6_OrderNeverFromArrival ==
    Done => \A p \in Orders :
                Rows(Output(task, Reordered(p), min_count, min_ips))
                    = Rows(stdout)

\* The line of the file where key k is first seen.
FirstSeen(k) ==
    CHOOSE j \in LinesWith(k, Len(file)) :
        \A a \in LinesWith(k, Len(file)) : j <= a

\* C6 as amended: the same lines in any other order give the same title,
\* header, rule and the same set of rows; the connections report is the
\* identical sequence; in the four other reports a row of higher metric
\* comes first, and of two rows of equal metric the one whose key is seen
\* first in the file comes first.
C6_OrderFromMetricThenArrival ==
    Done =>
        /\ \A p \in Orders :
              LET other == Output(task, Reordered(p), min_count, min_ips) IN
              /\ Len(other) = Len(stdout)
              /\ SubSeq(other, 1, 3) = SubSeq(stdout, 1, 3)
              /\ {other[j] : j \in 1..Len(other)}
                    = {stdout[j] : j \in 1..Len(stdout)}
              /\ task = "connections" => other = stdout
        /\ task \in MetricTasks =>
              \A a, b \in 1..Len(Rows(stdout)) :
                  a < b =>
                      LET ra == Rows(stdout)[a]
                          rb == Rows(stdout)[b]
                      IN \/ ra.metric > rb.metric
                         \/ /\ ra.metric = rb.metric
                            /\ FirstSeen(ra.key) < FirstSeen(rb.key)

\* C6 witness: two rows of equal metric, and an order of the same lines
\* that prints them the other way round.
C6_Witness ==
    /\ Done /\ task = "failed-logins"
    /\ Len(Rows(stdout)) = 2
    /\ Rows(stdout)[1].metric = Rows(stdout)[2].metric
    /\ \E p \in Orders :
         Rows(Output(task, Reordered(p), min_count, min_ips))
             = <<Rows(stdout)[2], Rows(stdout)[1]>>

\* C7: a missing or unreadable file is fatal before any output: a run that
\* fails has a non-zero exit status and has printed nothing, no run of an
\* unreadable file ends well or reads past the failure, and whatever is
\* printed is printed after the whole file was read.
C7_FatalBeforeOutput ==
    LET unreadable == \E j \in 1..Len(file) : file[j] = BadLine IN
    /\ pc = "crashed" => (exit_status = <<ExitUncaught>> /\ stdout = <<>>)
    /\ (~logfile_exists \/ unreadable) => (pc # "done" /\ stdout = <<>>)
    /\ ~logfile_exists => pc \in {"main", "open", "crashed"}
    /\ \A j \in 1..Len(file) : file[j] = BadLine => i < j
    /\ stdout # <<>> => (logfile_exists /\ i = Len(file))

\* C7 witness: decoding failed after lines had been counted, and nothing is
\* printed.
C7_Witness ==
    /\ pc = "crashed" /\ raised = "UnicodeDecodeError"
    /\ i >= 1 /\ counter # <<>>
    /\ stdout = <<>>
    /\ exit_status = <<ExitUncaught>>

\* The metric a key of the file reaches, and the threshold of the task.
MetricOf(k) ==
    IF task \in SetTasks
    THEN Cardinality({file[j].ip : j \in LinesWith(k, Len(file))})
    ELSE Cardinality(LinesWith(k, Len(file)))

Threshold ==
    CASE task = "failed-logins" -> min_count
      [] task = "identify-bots" -> min_ips
      [] OTHER -> 0

\* C8: a readable file that is empty, or none of whose lines match the
\* task's grammar, or all of whose keys are filtered out, never fails; its
\* report is the title followed by a header row and a rule only, with no
\* data row, and the exit status is 0.
C8_EmptyReport ==
    ( /\ logfile_exists
      /\ \A j \in 1..Len(file) : file[j] # BadLine
      /\ \A k \in KeysIn(Len(file)) : MetricOf(k) < Threshold )
    => /\ pc # "crashed"
       /\ Done => /\ Kinds(stdout) = <<"title", "header", "rule">>
                  /\ exit_status = <<0>>

\* C8 witness: top-commands has finished on an empty file.
C8_Witness ==
    /\ Done /\ task = "top-commands" /\ file = <<>>
    /\ Len(stdout) = 3
    /\ exit_status = <<0>>

\* C8 second case: every key of a file that has matching lines is below
\* the threshold.
AllFilteredReached ==
    /\ Done /\ task = "failed-logins" /\ counter # <<>>
    /\ Rows(stdout) = <<>>

\* The part of a row's key that is printed in column c of n key columns.
KeyCell(row, c, n) == IF n = 1 THEN row.key ELSE row.key[c]

\* C9: in every report no header title and no key overflows its key column,
\* the column being at least as wide as the longer of the header title and
\* the longest key; where the width is computed from the keys (the reports
\* of _print_counter) it equals that maximum.
C9_KeyColumnWidth ==
    \A h \in 1..Len(stdout) :
        stdout[h].kind = "header" =>
            LET n == Len(stdout[h].widths) IN
            \A c \in 1..n :
                LET longest ==
                        MaxOf([r \in 1..Len(Rows(stdout)) |->
                                 Len(KeyCell(Rows(stdout)[r], c, n))]
                              \o <<Len(stdout[h].cells[c])>>, 0)
                IN /\ stdout[h].widths[c] >= longest
                   /\ task \in CountTasks => stdout[h].widths[c] = longest

\* C10: in every report the rule is as long as the header row.
C10_RuleSpansHeader ==
    \A h, r \in 1..Len(stdout) :
        (stdout[h].kind = "header" /\ stdout[r].kind = "rule") =>
            stdout[r].len = stdout[h].len

====
